---------------------------- MODULE Spec2Model ----------------------------
(***************************************************************************)
(* Louvain community detection, networkx/algorithms/communities.py.       *)
(*                                                                         *)
(* A graph is a record                                                     *)
(*   nodes    : the node ids (small naturals),                             *)
(*   directed : TRUE for a DiGraph,                                        *)
(*   edge     : a function whose domain is the set of present edges        *)
(*              <<u, v>> with u <= v, to the edge's attribute dict: has is *)
(*              TRUE when the dict holds a 'weight' key, weight its value, *)
(*   members  : the 'members' attribute of each node (empty on the input). *)
(* Nodes are small non-negative integers, so the dict iteration order of   *)
(* `for u in G`, `G.neighbors(u)` and `for k in c` is ascending.           *)
(* Gains are floats in the code; the model keeps the exact numerator of    *)
(* the gain over the common denominator denom.                             *)
(***************************************************************************)
EXTENDS Integers, Sequences, FiniteSets, TLC

\* ------------------------------------------------------------------ bounds
MaxN == 3
MaxEdges == 3
MaxW == 1
MaxUnweightedN == 4
MaxUnweightedEdges == 4
\* cap on the move counter `improvements` of one _one_pass
MaxMoves == 12
\* edges of the graphs handed to _partition_to_graph alone
MaxAggEdges == 2

\* p[u] = None (communities.py:185)
PyNone == -1

\* ----------------------------------------------------------- Python values
PyInt(k) == [type |-> "int", int |-> k, dict |-> <<>>]
PyDict(d) == [type |-> "dict", int |-> 0, dict |-> d]
PyEq(a, b) ==
    /\ a.type = b.type
    /\ IF a.type = "int" THEN a.int = b.int ELSE a.dict = b.dict

\* ---------------------------------------------------------- graph queries
\* the sum of f[x] over x in S, for f[x] >= 0 (edge weights are not negative)
SumOver(f, S) == Cardinality(UNION {{<<x, j>> : j \in 1 .. f[x]} : x \in S})

\* the integers of S in ascending order
Ordered(S) ==
    [i \in 1 .. Cardinality(S) |->
        CHOOSE x \in S : Cardinality({y \in S : y < x}) = i - 1]

EdgeKey(u, v) == IF u <= v THEN <<u, v>> ELSE <<v, u>>

has_edge(G, u, v) == EdgeKey(u, v) \in DOMAIN G.edge

\* data.get('weight', 1)
DataWeight(d) == IF d.has THEN d.weight ELSE 1

\* G.get_edge_data(u, v, {'weight': 0}).get('weight', 1)
EdgeWeight(G, u, v) ==
    IF has_edge(G, u, v) THEN DataWeight(G.edge[EdgeKey(u, v)]) ELSE 0

\* G.neighbors(u), in iteration order
neighbors(G, u) == Ordered({v \in G.nodes : has_edge(G, u, v)})

\* G.degree(u): the number of incident edges, a self-loop counted twice
degree(G, u) ==
    Cardinality({v \in G.nodes : has_edge(G, u, v)})
        + (IF has_edge(G, u, u) THEN 1 ELSE 0)

number_of_edges(G) == Cardinality(DOMAIN G.edge)

\* G.size(weight='weight'): the sum of the edge weights, a missing weight is 1
size(G) == SumOver([e \in DOMAIN G.edge |-> DataWeight(G.edge[e])], DOMAIN G.edge)

\* ------------------------------------------------------------ input graphs
Slots(n) == {e \in (0 .. n - 1) \X (0 .. n - 1) : e[1] <= e[2]}

\* the attribute dicts {'weight': w}
WeightData == {[has |-> TRUE, weight |-> w] : w \in 0 .. MaxW}

\* the attribute dict {} of an edge added without a weight
NoWeight == [has |-> FALSE, weight |-> 0]

MkGraph(n, dir, ed) ==
    [nodes |-> 0 .. n - 1, directed |-> dir, edge |-> ed,
     members |-> [u \in 0 .. n - 1 |-> {}]]

\* graphs of up to MaxN nodes and `edges` edges, each edge with a weight in
\* 0 .. MaxW, undirected or directed
WeightedGraph(g, edges) ==
    \E n \in 1 .. MaxN : \E es \in SUBSET Slots(n) :
        /\ Cardinality(es) <= edges
        /\ \E ed \in [es -> WeightData] : \E dir \in BOOLEAN : g = MkGraph(n, dir, ed)

\* undirected graphs of up to MaxUnweightedN nodes whose edges carry no weight
UnweightedGraph(g, edges) ==
    \E n \in 1 .. MaxUnweightedN : \E es \in SUBSET Slots(n) :
        /\ Cardinality(es) <= edges
        /\ g = MkGraph(n, FALSE, [e \in es |-> NoWeight])

\* two triangles joined by one bridge, under every labelling of the six nodes
TwoTrianglesEdges == {<<1, 2>>, <<2, 3>>, <<1, 3>>, <<4, 5>>, <<5, 6>>, <<4, 6>>, <<3, 4>>}

TwoTriangles(perm) ==
    [nodes |-> {perm[i] - 1 : i \in DOMAIN perm}, directed |-> FALSE,
     edge |-> [e \in {EdgeKey(perm[x[1]] - 1, perm[x[2]] - 1) : x \in TwoTrianglesEdges}
                 |-> NoWeight],
     members |-> [u \in {perm[i] - 1 : i \in DOMAIN perm} |-> {}]]

TwoTrianglesGraph(g) == \E perm \in Permutations(1 .. 6) : g = TwoTriangles(perm)

\* ------------------------------------------------------------------- state
VARIABLES
    G,             \* louvain's argument
    H,             \* louvain: the working graph
    tree,          \* louvain: the list of levels
    improved,      \* louvain: the outer loop's flag
    pc,            \* position in louvain / _one_pass
    err,           \* the exception louvain ended in, "" when none
    p,             \* _one_pass: node -> community id
    c,             \* _one_pass: community id -> set of nodes
    inner,         \* _one_pass: community id -> inner weight
    tot,           \* _one_pass: community id -> total degree
    denom,         \* _one_pass: 2 * G.size(weight='weight')
    improvements,  \* _one_pass: number of moves
    increase,      \* _one_pass: the inner loop's flag
    pos,           \* _one_pass: index of the next node of `for u in G`
    c_old,         \* _one_pass: community the last node was removed from
    c_new,         \* _one_pass: community the last node was inserted into
    max_gain       \* _one_pass: numerator over denom of the last max_gain

vars == <<G, H, tree, improved, pc, err, p, c, inner, tot, denom, improvements,
          increase, pos, c_old, c_new, max_gain>>

passVars == <<p, c, inner, tot, denom, improvements, increase, pos, c_old, c_new, max_gain>>

\* ------------------------------------------------------------- _one_pass
\* _k_in: sum of the weights of the links between u and the nodes v != u
\* with p[v] == c_target
_k_in(g, u, c_target, part) ==
    SumOver([v \in g.nodes |-> EdgeWeight(g, u, v)],
            {v \in g.nodes : v # u /\ PyEq(PyInt(part[v]), c_target)})

SelfLoop(g, u) == EdgeWeight(g, u, u)

\* _init(G, u)
_init(g, u) == [inner |-> SelfLoop(g, u), tot |-> degree(g, u)]

_remove_keep(g, u, co, st) ==
    [p |-> [st.p EXCEPT ![u] = PyNone],
     c |-> st.c,
     inner |-> [st.inner EXCEPT ![co] = @ - (_k_in(g, u, PyDict(st.c), st.p) + SelfLoop(g, u))],
     tot |-> [st.tot EXCEPT ![co] = @ - degree(g, u)]]

\* _remove(G, u, c_old, c, p, inner, tot); _k_in is handed the dict c
_remove(g, u, co, st) ==
    [p |-> [st.p EXCEPT ![u] = PyNone],
     c |-> [st.c EXCEPT ![co] = @ \ {u}],
     inner |-> [st.inner EXCEPT ![co] = @ - (_k_in(g, u, PyDict(st.c), st.p) + SelfLoop(g, u))],
     tot |-> [st.tot EXCEPT ![co] = @ - degree(g, u)]]

\* _insert(G, u, c_new, c, p, inner, tot); _k_in is handed the dict c
_insert(g, u, cn, st) ==
    [p |-> [st.p EXCEPT ![u] = cn],
     c |-> [st.c EXCEPT ![cn] = @ \cup {u}],
     inner |-> [st.inner EXCEPT ![cn] = @ + (_k_in(g, u, PyDict(st.c), st.p) + SelfLoop(g, u))],
     tot |-> [st.tot EXCEPT ![cn] = @ + degree(g, u)]]

_gain_unnormalised(g, u, c_target, part, t, dn) ==
    (_k_in(g, u, PyInt(c_target), part) - t[c_target] * degree(g, u)) * dn

\* _gain * denom:  float(k_in) - float(tot[c_target] * degree(u)) / denom
_gain(g, u, c_target, part, t, dn) ==
    _k_in(g, u, PyInt(c_target), part) * dn - t[c_target] * degree(g, u)

\* `if gain > max_gain`
Better(gain, mg) == gain > mg

\* the loop over nx.neighbors(G, u), lines 99-105: vs is the neighbour list,
\* i the index of the next neighbour, acc the values of max_gain and c_new
RECURSIVE Scan(_, _, _, _, _, _, _, _)
Scan(g, u, vs, i, part, t, dn, acc) ==
    IF i > Len(vs) THEN acc
    ELSE IF u # vs[i] /\ Better(_gain(g, u, part[vs[i]], part, t, dn), acc.max_gain)
         THEN Scan(g, u, vs, i + 1, part, t, dn,
                   [max_gain |-> _gain(g, u, part[vs[i]], part, t, dn), c_new |-> part[vs[i]]])
         ELSE Scan(g, u, vs, i + 1, part, t, dn, acc)

\* the gain is computed (and divides by denom) for every neighbour v != u
ComputesGain(g, u) == \E v \in g.nodes : v # u /\ has_edge(g, u, v)

State == [p |-> p, c |-> c, inner |-> inner, tot |-> tot]



\* ----------------------------------------------------------- _partition_to_graph
u_v_weight_plain(g, part, e) == DataWeight(g.edge[e])

\* u_v_weight of one edge e = <<u, v>> of g (lines 136-138)
u_v_weight(g, part, e) ==
    IF part[e[1]] = part[e[2]] /\ e[1] # e[2]
    THEN DataWeight(g.edge[e]) * 2
    ELSE DataWeight(g.edge[e])

_partition_to_graph_overwrite(g, part, comm) ==
    LET keys == {EdgeKey(part[e[1]], part[e[2]]) : e \in DOMAIN g.edge}
        into(k) == {e \in DOMAIN g.edge : EdgeKey(part[e[1]], part[e[2]]) = k}
    IN [nodes |-> DOMAIN comm \cup {k[1] : k \in keys} \cup {k[2] : k \in keys},
        directed |-> FALSE,
        edge |-> [k \in keys |->
                    [has |-> TRUE,
                     weight |-> u_v_weight(g, part, CHOOSE e \in into(k) : TRUE)]],
        members |-> [k \in DOMAIN comm \cup {k[1] : k \in keys} \cup {k[2] : k \in keys}
                       |-> IF k \in DOMAIN comm THEN comm[k] ELSE {}]]

\* _partition_to_graph(G, p, c)
_partition_to_graph(g, part, comm) ==
    LET keys == {EdgeKey(part[e[1]], part[e[2]]) : e \in DOMAIN g.edge}
        into(k) == {e \in DOMAIN g.edge : EdgeKey(part[e[1]], part[e[2]]) = k}
    IN [nodes |-> DOMAIN comm \cup {k[1] : k \in keys} \cup {k[2] : k \in keys},
        directed |-> FALSE,
        edge |-> [k \in keys |->
                    [has |-> TRUE,
                     weight |-> SumOver([e \in DOMAIN g.edge |-> u_v_weight(g, part, e)], into(k))]],
        members |-> [k \in DOMAIN comm \cup {k[1] : k \in keys} \cup {k[2] : k \in keys}
                       |-> IF k \in DOMAIN comm THEN comm[k] ELSE {}]]

Improved_unchecked(n, comm) == Cardinality(DOMAIN comm) > 1

\* `improved = improvements > 0 and len(c) > 1`
Improved(n, comm) == n > 0 /\ Cardinality(DOMAIN comm) > 1

Moved_always(cn, co) == TRUE

\* `if c_new != c_old`
Moved(cn, co) == cn # co

NonEmpty_all(comm) == comm

\* c = { key:value for (key, value) in c.iteritems() if len(value) > 0 }
NonEmpty(comm) == [k \in {j \in DOMAIN comm : comm[j] # {}} |-> comm[k]]

\* --------------------------------------------------------------------- Init

\* louvain is entered: nothing has run yet
Entered ==
    /\ H = G
    /\ tree = <<>>
    /\ improved = FALSE
    /\ pc = "start"
    /\ err = ""
    /\ p = <<>> /\ c = <<>> /\ inner = <<>> /\ tot = <<>>
    /\ denom = 0 /\ improvements = 0 /\ increase = FALSE /\ pos = 0
    /\ c_old = PyNone /\ c_new = PyNone /\ max_gain = 0

Init ==
    /\ \/ WeightedGraph(G, MaxEdges)
       \/ UnweightedGraph(G, MaxUnweightedEdges)
       \/ TwoTrianglesGraph(G)
    /\ Entered

\* ------------------------------------------------------------------ louvain
\* lines 37-39
RaiseNoEdges ==
    /\ pc = "start"
    /\ number_of_edges(G) = 0
    /\ pc' = "raised"
    /\ err' = "NetworkXError"
    /\ UNCHANGED <<G, H, tree, improved, passVars>>

\* lines 41-43
RaiseDirected ==
    /\ pc = "start"
    /\ number_of_edges(G) # 0
    /\ H.directed
    /\ pc' = "raised"
    /\ err' = "NetworkXError"
    /\ UNCHANGED <<G, H, tree, improved, passVars>>

\* line 45
Enter ==
    /\ pc = "start"
    /\ number_of_edges(G) # 0
    /\ ~H.directed
    /\ improved' = TRUE
    /\ pc' = "loop"
    /\ UNCHANGED <<G, H, tree, err, passVars>>

\* line 46 taken, line 47 up to line 90 of _one_pass
OnePassInit ==
    /\ pc = "loop"
    /\ improved
    /\ LET order == Ordered(H.nodes)
           id(u) == (CHOOSE i \in DOMAIN order : order[i] = u) - 1
       IN /\ p' = [u \in H.nodes |-> id(u)]
          /\ c' = [i \in 0 .. Len(order) - 1 |-> {order[i + 1]}]
          /\ inner' = [i \in 0 .. Len(order) - 1 |-> _init(H, order[i + 1]).inner]
          /\ tot' = [i \in 0 .. Len(order) - 1 |-> _init(H, order[i + 1]).tot]
    /\ denom' = 2 * size(H)
    /\ improvements' = 0
    /\ increase' = TRUE
    /\ pos' = 0
    /\ c_old' = PyNone /\ c_new' = PyNone /\ max_gain' = 0
    /\ pc' = "while"
    /\ UNCHANGED <<G, H, tree, improved, err>>

\* lines 91-92: a sweep starts
SweepBegin ==
    /\ pc = "while"
    /\ increase
    /\ increase' = FALSE
    /\ pos' = 1
    /\ pc' = "for"
    /\ UNCHANGED <<G, H, tree, improved, err, p, c, inner, tot, denom, improvements,
                   c_old, c_new, max_gain>>

\* lines 93-111: one iteration of `for u in G`
MoveNode ==
    /\ pc = "for"
    /\ improvements < MaxMoves
    /\ \E u \in {Ordered(H.nodes)[pos]} :
         /\ ~(denom = 0 /\ ComputesGain(H, u))
         /\ \E removed \in {_remove(H, u, p[u], State)} :
            \E vs \in {neighbors(H, u)} :
            \E found \in {Scan(H, u, vs, 1, removed.p, removed.tot, denom,
                               [max_gain |-> 0, c_new |-> PyNone])} :
            \E cn \in {IF found.c_new = PyNone THEN p[u] ELSE found.c_new} :
            \E inserted \in {_insert(H, u, cn, removed)} :
              /\ p' = inserted.p /\ c' = inserted.c
              /\ inner' = inserted.inner /\ tot' = inserted.tot
              /\ c_old' = p[u] /\ c_new' = cn /\ max_gain' = found.max_gain
              /\ increase' = (increase \/ Moved(cn, p[u]))
              /\ improvements' = IF Moved(cn, p[u]) THEN improvements + 1 ELSE improvements
    /\ pos' = IF pos = Cardinality(H.nodes) THEN 0 ELSE pos + 1
    /\ pc' = IF pos = Cardinality(H.nodes) THEN "while" ELSE "for"
    /\ UNCHANGED <<G, H, tree, improved, err, denom>>

\* lines 93-102: _gain divides by denom = 0
MoveNodeRaise ==
    /\ pc = "for"
    /\ \E u \in {Ordered(H.nodes)[pos]} :
         /\ denom = 0 /\ ComputesGain(H, u)
         /\ \E removed \in {_remove(H, u, p[u], State)} :
              /\ p' = removed.p /\ c' = removed.c
              /\ inner' = removed.inner /\ tot' = removed.tot
              /\ c_old' = p[u] /\ c_new' = PyNone /\ max_gain' = 0
    /\ pc' = "raised"
    /\ err' = "ZeroDivisionError"
    /\ UNCHANGED <<G, H, tree, improved, denom, improvements, increase, pos>>

\* line 91 not taken, lines 112-113: _one_pass returns (p, c, improvements)
OnePassReturn ==
    /\ pc = "while"
    /\ ~increase
    /\ c' = NonEmpty(c)
    /\ pc' = "returned"
    /\ UNCHANGED <<G, H, tree, improved, err, p, inner, tot, denom, improvements,
                   increase, pos, c_old, c_new, max_gain>>

\* lines 48-50
Aggregate ==
    /\ pc = "returned"
    /\ H' = _partition_to_graph(H, p, c)
    /\ improved' = Improved(improvements, c)
    /\ tree' = Append(tree, H')
    /\ pc' = "loop"
    /\ UNCHANGED <<G, err, passVars>>

\* line 46 not taken, line 51
ReturnTree ==
    /\ pc = "loop"
    /\ ~improved
    /\ pc' = "done"
    /\ UNCHANGED <<G, H, tree, improved, err, passVars>>

Next ==
    \/ RaiseNoEdges
    \/ RaiseDirected
    \/ Enter
    \/ OnePassInit
    \/ SweepBegin
    \/ MoveNode
    \/ MoveNodeRaise
    \/ OnePassReturn
    \/ Aggregate
    \/ ReturnTree

Spec == Init /\ [][Next]_vars

\* ------------------------------------------- _partition_to_graph on its own
\* the partitions of 0 .. n - 1 into communities numbered in order of first
\* appearance, or in the reverse of it
Partitions(n) ==
    LET grow == {q \in [0 .. n - 1 -> 0 .. n - 1] :
                    \A u \in 0 .. n - 1 :
                        \/ q[u] = 0
                        \/ \E v \in 0 .. u - 1 : q[v] = q[u] \/ q[v] = q[u] - 1}
    IN grow \cup {[u \in 0 .. n - 1 |-> n - 1 - q[u]] : q \in grow}

Communities(part) ==
    [k \in {part[u] : u \in DOMAIN part} |-> {u \in DOMAIN part : part[u] = k}]

\* an undirected graph of up to MaxN nodes and MaxAggEdges edges, with or
\* without weights, and a complete partition of its nodes
InitAgg ==
    /\ \E n \in 1 .. MaxN : \E es \in SUBSET Slots(n) :
         /\ Cardinality(es) <= MaxAggEdges
         /\ \E ed \in [es -> WeightData \cup {NoWeight}] : G = MkGraph(n, FALSE, ed)
         /\ p \in Partitions(n)
    /\ c = Communities(p)
    /\ H = G
    /\ tree = <<>>
    /\ improved = TRUE
    /\ pc = "returned"
    /\ err = ""
    /\ inner = <<>> /\ tot = <<>>
    /\ denom = 2 * size(G) /\ improvements = 0 /\ increase = FALSE /\ pos = 0
    /\ c_old = PyNone /\ c_new = PyNone /\ max_gain = 0

SpecAgg == InitAgg /\ [][Aggregate]_vars


\* the calls whose termination is checked: the same three families, each of
\* the first two with one edge fewer
InitFair ==
    /\ \/ WeightedGraph(G, MaxEdges - 1)
       \/ UnweightedGraph(G, MaxUnweightedEdges - 1)
       \/ TwoTrianglesGraph(G)
    /\ Entered

\* the scheduler is the Python interpreter: a statement that can run, runs
FairSpec == InitFair /\ [][Next]_vars /\ WF_vars(Next)

\* ------------------------------------------------------------------ levels
\* level 0 is the input graph, level i is tree[i]
Level(i) == IF i = 0 THEN G ELSE tree[i]

\* sum of the weights of the non-self-loop edges of g inside one community
InternalNonLoop(g, part) ==
    SumOver([e \in DOMAIN g.edge |-> DataWeight(g.edge[e])],
            {e \in DOMAIN g.edge : e[1] # e[2] /\ part[e[1]] = part[e[2]]})

\* C1: a graph of zero total edge weight, and a directed graph, end in
\* NetworkXError before any local-moving pass runs, and no level is produced.
C1_ZeroWeightOrDirectedRaises ==
    (size(G) = 0 \/ G.directed) =>
        /\ pc \in {"start", "raised"}
        /\ err \in {"", "NetworkXError"}
        /\ tree = <<>>

\* C2 as stated: every level transition keeps the sum of all edge weights.
C2_WeightConserved ==
    \A i \in 1 .. Len(tree) : size(Level(i)) = size(Level(i - 1))

\* C2 amended: the sum of all edge weights of the new graph is the sum of all
\* edge weights of the old graph plus the weights of the old graph's
\* non-self-loop edges that lie inside one community (each is doubled).
C2_WeightGrowsByInternal ==
    (pc = "loop" /\ tree # <<>>) =>
        size(H) = size(Level(Len(tree) - 1)) + InternalNonLoop(Level(Len(tree) - 1), p)

C2_Witness ==
    /\ pc = "loop" /\ tree # <<>>
    /\ InternalNonLoop(Level(Len(tree) - 1), p) > 0
    /\ \E e \in DOMAIN Level(Len(tree) - 1).edge : p[e[1]] # p[e[2]]

\* C3: when _one_pass returns, every node of the graph is in exactly one
\* community of c, p and c agree, no community is empty and the communities
\* cover the node set.
C3_PartitionComplete ==
    pc = "returned" =>
        /\ DOMAIN p = H.nodes
        /\ \A u \in H.nodes :
             /\ p[u] # PyNone
             /\ p[u] \in DOMAIN c
             /\ u \in c[p[u]]
             /\ \A k \in DOMAIN c : u \in c[k] => k = p[u]
        /\ \A k \in DOMAIN c : c[k] # {}
        /\ UNION {c[k] : k \in DOMAIN c} = H.nodes

C3_Witness ==
    /\ pc = "returned"
    /\ improvements > 0
    /\ Cardinality(DOMAIN c) > 1
    /\ Cardinality(DOMAIN c) < Cardinality(H.nodes)

\* C4: on an undirected graph of positive total weight louvain returns the
\* tree: the last local-moving phase has ended on a sweep without a move
\* (increase is False) and the level loop has set improved to False.
C4_Terminates ==
    (pc = "start" /\ ~G.directed /\ size(G) > 0)
        ~> (pc = "done" /\ ~increase /\ ~improved)

C4_Witness ==
    /\ pc = "done"
    /\ size(G) > 0
    /\ Len(tree) >= 2
    /\ improvements > 0

NodeCount(i) == Cardinality(Level(i).nodes)

\* C5: no level has more nodes than the level before it, and only the last
\* level of the tree can have as many.
C5_SizesShrink ==
    \A i \in 1 .. Len(tree) :
        /\ NodeCount(i) <= NodeCount(i - 1)
        /\ NodeCount(i) = NodeCount(i - 1) => i = Len(tree)

C5_Witness ==
    /\ pc = "done"
    /\ Len(tree) >= 2
    /\ NodeCount(Len(tree)) = NodeCount(Len(tree) - 1)
    /\ NodeCount(1) < NodeCount(0)

\* the nodes of the input graph that the nodes S of level i stand for
RECURSIVE Flatten(_, _)
Flatten(i, S) ==
    IF i = 0 THEN S ELSE Flatten(i - 1, UNION {tree[i].members[k] : k \in S})

\* C6: at every level of the tree the flattened member sets of the level's
\* nodes are pairwise disjoint, and together they are the input's node set,
\* each input node counted once.
C6_FlattenPartitions ==
    \A i \in 1 .. Len(tree) :
        /\ \A k1, k2 \in tree[i].nodes :
             k1 # k2 => Flatten(i, {k1}) \cap Flatten(i, {k2}) = {}
        /\ UNION {Flatten(i, {k}) : k \in tree[i].nodes} = G.nodes
        /\ SumOver([k \in tree[i].nodes |-> Cardinality(Flatten(i, {k}))], tree[i].nodes)
             = Cardinality(G.nodes)

C6_Witness ==
    /\ pc = "done"
    /\ Len(tree) >= 2
    /\ \E k \in tree[2].nodes :
         /\ Cardinality(tree[2].members[k]) >= 2
         /\ Cardinality(Flatten(2, {k})) >= 3
    /\ Cardinality(tree[2].nodes) >= 2

IsTwoTriangles(g) == Cardinality(g.nodes) = 6 /\ TwoTrianglesGraph(g)

IsTriangle(g, S) ==
    /\ Cardinality(S) = 3
    /\ \A u, v \in S : u # v => has_edge(g, u, v)

\* C7: for two triangles joined by a bridge, tree[0] has two nodes, one per
\* triangle, a self-loop of weight 6 on each and one edge of weight 1
\* between them.
C7_TwoTriangles ==
    (IsTwoTriangles(G) /\ tree # <<>>) =>
        LET T == tree[1]
            loops == {e \in DOMAIN T.edge : e[1] = e[2]}
            links == {e \in DOMAIN T.edge : e[1] # e[2]}
        IN /\ Cardinality(T.nodes) = 2
           /\ \A k \in T.nodes : IsTriangle(G, T.members[k])
           /\ \A k1, k2 \in T.nodes : k1 # k2 => T.members[k1] \cap T.members[k2] = {}
           /\ Cardinality(links) = 1
           /\ \A e \in links : T.edge[e] = [has |-> TRUE, weight |-> 1]
           /\ loops = {<<k, k>> : k \in T.nodes}
           /\ \A e \in loops : T.edge[e] = [has |-> TRUE, weight |-> 6]

C7_Witness ==
    /\ IsTwoTriangles(G)
    /\ Len(tree) >= 1
    /\ pc = "done"

\* the edges of g that run between communities cu and cv of part
Between(g, part, cu, cv) ==
    {e \in DOMAIN g.edge : {part[e[1]], part[e[2]]} = {cu, cv}}

\* what the edges of S add to the new graph: a non-self-loop inside one
\* community counts twice, every other edge once
Contribution(g, part, S) ==
    2 * SumOver([e \in DOMAIN g.edge |-> DataWeight(g.edge[e])],
                {e \in S : e[1] # e[2] /\ part[e[1]] = part[e[2]]})
      + SumOver([e \in DOMAIN g.edge |-> DataWeight(g.edge[e])],
                {e \in S : e[1] = e[2] \/ part[e[1]] # part[e[2]]})

\* C8: the graph built by _partition_to_graph has one node per community,
\* an edge (cu, cv) exactly when some edge of the old graph runs between cu
\* and cv, and its weight is the sum of the contributions of those edges:
\* 2w for an internal non-self-loop, w for a self-loop or a crossing edge, a
\* missing weight taken as 1.
C8_AggregationRule ==
    (pc = "loop" /\ tree # <<>>) =>
        LET old == Level(Len(tree) - 1)
        IN /\ H.nodes = DOMAIN c
           /\ \A k \in DOMAIN c : H.members[k] = c[k]
           /\ DOMAIN H.edge \subseteq {e \in (DOMAIN c) \X (DOMAIN c) : e[1] <= e[2]}
           /\ \A cu, cv \in DOMAIN c :
                cu <= cv =>
                  IF Between(old, p, cu, cv) = {}
                  THEN <<cu, cv>> \notin DOMAIN H.edge
                  ELSE /\ <<cu, cv>> \in DOMAIN H.edge
                       /\ H.edge[<<cu, cv>>].has
                       /\ H.edge[<<cu, cv>>].weight
                            = Contribution(old, p, Between(old, p, cu, cv))

C8_Witness ==
    /\ pc = "loop" /\ tree # <<>>
    /\ \E cu, cv \in DOMAIN c :
         /\ cu < cv
         /\ Cardinality(Between(Level(Len(tree) - 1), p, cu, cv)) >= 2
         /\ \E e \in Between(Level(Len(tree) - 1), p, cu, cv) : ~G.edge[e].has
         /\ H.edge[<<cu, cv>>].weight >= 2

\* the choice the claim describes for node u, taken out of community co, with
\* part and t the partition and the total degrees after the removal
ClaimedChoice(u, co, part, t) ==
    LET vs == neighbors(H, u)
        others == {i \in DOMAIN vs : vs[i] # u}
        gain(i) == _gain(H, u, part[vs[i]], part, t, denom)
        best == {i \in others : \A j \in others : gain(j) <= gain(i)}
    IN IF others = {} \/ \A i \in others : gain(i) <= 0 THEN co
       ELSE IF \E i \in best : part[vs[i]] = co THEN co
       ELSE part[vs[CHOOSE i \in best : \A j \in best : i <= j]]

\* C9: one step of a sweep puts node u into the neighbouring community of
\* greatest gain; u stays in c_old when c_old ties for the greatest gain or
\* when no gain is positive; other ties go to the community met first; and a
\* step that leaves u in c_old is not counted as a move.
C9_MoveSelection ==
    [][(pc = "for" /\ pc' \in {"for", "while"}) =>
          LET u == Ordered(H.nodes)[pos]
              part == [p EXCEPT ![u] = PyNone]
              t == [tot EXCEPT ![p[u]] = @ - degree(H, u)]
          IN /\ c_new' = ClaimedChoice(u, p[u], part, t)
             /\ p'[u] = c_new'
             /\ improvements' = improvements + (IF c_new' # p[u] THEN 1 ELSE 0)]_vars

\* sum of the weights of the edges of g with both endpoints in S
InternalWeight(g, S) ==
    SumOver([e \in DOMAIN g.edge |-> DataWeight(g.edge[e])],
            {e \in DOMAIN g.edge : e[1] \in S /\ e[2] \in S})

\* C10: between node moves, inner[k] is the sum of the weights of the edges
\* with both endpoints in community k, self-loops included.
C10_InnerIsInternalWeight ==
    pc \in {"while", "for"} =>
        \A k \in DOMAIN c : inner[k] = InternalWeight(H, c[k])

\* the weighted degree of u: the sum of the weights of the edges incident to u,
\* a self-loop counted twice, so that the degrees of all nodes sum to 2m
WeightedDegree(g, u) ==
    SumOver([v \in g.nodes |-> EdgeWeight(g, u, v)], g.nodes) + EdgeWeight(g, u, u)

\* C11: during a pass on any level graph, after the initialisation and after
\* every completed node move, tot[k] is the sum of the weighted degrees of the
\* current members of community k.
C11_TotIsWeightedDegree ==
    pc \in {"while", "for"} =>
        \A k \in DOMAIN c :
            tot[k] = SumOver([u \in H.nodes |-> WeightedDegree(H, u)], c[k])

TypeOK == pc \in {"start", "loop", "while", "for", "returned", "raised", "done"}

=============================================================================
